---- MODULE Spec2Model ----
(***************************************************************************)
(* Red Zone 9s rating pipeline: aggregatePlayerStats, computePlayerRating  *)
(* and toLeaderboard of src/src/rz9/rz9Utils.js, with the older variant of *)
(* src/src/leaderboard/rz9Utils.js where it differs.                       *)
(*                                                                         *)
(* Numbers.  A JavaScript number that may be NaN or Infinity is a record   *)
(* [k, v]: k = "num" with the value in v, k = "nan", or k = "inf".         *)
(* Fractions (rates, probabilities, decay weights, exponents) and ratings  *)
(* are fixed-point integers in units of 1/ONE, rounded to nearest after    *)
(* every operation; IEEE-754 rounding itself is not modelled.  Timestamps  *)
(* are counted in whole days instead of milliseconds (every timestamp the  *)
(* code subtracts is a multiple of MS_DAY).                                *)
(***************************************************************************)
EXTENDS Integers, Sequences, FiniteSets, TLC

\* ------------------------------------------------------------------ bounds
MaxEntries == 2      \* longest history handed to computePlayerRating
MaxPractices == 2    \* longest practice collection handed to aggregation

\* ------------------------------------------------------- program constants
NEUTRAL == 555000    \* 0.555, in millionths
INITIAL == 1000
MU == 1000
HALF_LIFE == 21
WIDTH == 10000
STEP == 200

\* ------------------------------------------------------------- fixed point
ONE == 10 * 10 * 10          \* fixed-point unit: 1.0
MILLION == ONE * ONE         \* unit of the neutral parameter

Min(a, b) == IF a <= b THEN a ELSE b
Max(a, b) == IF a >= b THEN a ELSE b

\* a / b rounded to the nearest integer (b > 0)
RoundDiv(a, b) == (2 * a + b) \div (2 * b)

Num(v) == [k |-> "num", v |-> v]
NaN == [k |-> "nan", v |-> 0]
PosInf == [k |-> "inf", v |-> 0]

IsFinite(x) == x.k = "num"

\* scores / reps for non-negative integers, as a fixed-point fraction:
\* 0/0 is NaN and n/0 is Infinity
Divide(scores, reps) ==
  IF reps = 0
  THEN (IF scores = 0 THEN NaN ELSE PosInf)
  ELSE Num(RoundDiv(scores * ONE, reps))

\* Math.min(1, Math.max(0, x)): NaN stays NaN, Infinity becomes 1
Clamp01(x) ==
  CASE x.k = "nan" -> NaN
    [] x.k = "inf" -> Num(ONE)
    [] OTHER -> Num(Min(ONE, Max(0, x.v)))

RECURSIVE TenTo(_)
TenTo(n) == IF n = 0 THEN 1 ELSE 10 * TenTo(n - 1)

\* 10^(a/10) in units of 1/10000, a = 0..9
TenthPowers ==
  <<10000, 12589, 15849, 19953, 25119, 31623, 39811, 50119, 63096, 79433>>

\* 10^(f/ONE) for 0 <= f < ONE, in units of 1/10000: table step 0.1, then the
\* series of exp(y), y = (f mod 100)/1000 * ln 10
Frac10(f) ==
  LET a == f \div 100
      b == f % 100
      y == RoundDiv(b * 23026, 1000)
      t2 == RoundDiv(y * y, 2 * 10000)
      t3 == RoundDiv(t2 * y, 3 * 10000)
      t4 == RoundDiv(t3 * y, 4 * 10000)
  IN RoundDiv(TenthPowers[a + 1] * (10000 + y + t2 + t3 + t4), 10000)

\* Math.pow(10, x/ONE) in units of 1/ONE.  The double is 0 only below 2^-1075,
\* which is 10^-323.607; a positive power too small for the unit is kept as
\* one unit, so that the result is 0 exactly where the double is.
Pow10(x) ==
  LET q == x \div ONE
      m == Frac10(x % ONE)
  IN IF q >= 1 THEN m * TenTo(q - 1)
     ELSE IF x < 0 - 323607 THEN 0
     ELSE IF q < 0 - 5 THEN 1
     ELSE Max(1, RoundDiv(m, TenTo(1 - q)))

RECURSIVE LogSearch(_, _, _)
LogSearch(v, lo, hi) ==
  IF lo >= hi THEN lo
  ELSE LET mid == (lo + hi + 1) \div 2
       IN IF Pow10(mid) <= v THEN LogSearch(v, mid, hi)
          ELSE LogSearch(v, lo, mid - 1)

\* Math.log10(v/ONE) in units of 1/ONE, for 0 < v: the greatest exponent whose
\* power of ten does not exceed v
Log10(v) == LogSearch(v, 0 - 4 * ONE, 4 * ONE)

\* Math.pow(base/ONE, x/ONE) in units of 1/ONE
Pow(base, x) == Pow10(RoundDiv(x * Log10(base), ONE))


\* ------------------------------------------------------------------- dates
\* A date string "Y-M-D" is a record of its three "-"-separated pieces.  A
\* piece is a numeral, a non-numeric text, or empty/missing.  The empty
\* string and a null date are the date whose three pieces are empty.
Digits(n) == [k |-> "digits", v |-> n]
Text == [k |-> "text", v |-> 0]
Empty == [k |-> "empty", v |-> 0]
YMD(y, m, d) == [y |-> Digits(y), m |-> Digits(m), d |-> Digits(d)]
EmptyDate == [y |-> Empty, m |-> Empty, d |-> Empty]
TextDate == [y |-> Text, m |-> Empty, d |-> Empty]

\* Number(piece): Number("") is 0, Number("abc") is NaN
ToNumber(tok) ==
  CASE tok.k = "digits" -> Num(tok.v)
    [] tok.k = "empty" -> Num(0)
    [] OTHER -> NaN

\* x || 1 for a number x: 0 and NaN are falsy
OrOne(x) == IF x.k = "nan" \/ x.v = 0 THEN 1 ELSE x.v

\* days from 1970-01-01 to the civil date y-m-d (m = 1..12)
DaysFromCivil(y, m, d) ==
  LET yy == IF m <= 2 THEN y - 1 ELSE y
      era == yy \div 400
      yoe == yy - era * 400
      mp == IF m > 2 THEN m - 3 ELSE m + 9
      doy == (153 * mp + 2) \div 5 + d - 1
      doe == yoe * 365 + yoe \div 4 - yoe \div 100 + doy
  IN era * 146097 + doe - 719468

\* Date.UTC(year, monthIndex, day) in days: years 0..99 mean 1900..1999 and a
\* month index outside 0..11 carries into the year
DateUTC(year, monthIndex, day) ==
  LET y0 == IF year >= 0 /\ year <= 99 THEN 1900 + year ELSE year
  IN DaysFromCivil(y0 + monthIndex \div 12, (monthIndex % 12) + 1, day)

toUTC(ymd) ==
  LET y == ToNumber(ymd.y)
      m == ToNumber(ymd.m)
      d == ToNumber(ymd.d)
  IN IF IsFinite(y) THEN Num(DateUTC(y.v, OrOne(m) - 1, OrOne(d))) ELSE NaN

\* a Date is [y, m, d, ms]: its UTC calendar day and the milliseconds into it
floorUTC(dt) == DateUTC(dt.y, dt.m - 1, dt.d)

TokRank(tok) == CASE tok.k = "empty" -> 0 [] tok.k = "digits" -> 1 [] OTHER -> 2

CompareTok(s, t) ==
  IF TokRank(s) # TokRank(t) THEN (IF TokRank(s) < TokRank(t) THEN 0 - 1 ELSE 1)
  ELSE IF s.v # t.v THEN (IF s.v < t.v THEN 0 - 1 ELSE 1)
  ELSE 0

\* a.localeCompare(b) for two date strings: piece by piece, the empty piece
\* first, numerals (zero-padded, so by value) before letters
localeCompareDate(a, b) ==
  IF CompareTok(a.y, b.y) # 0 THEN CompareTok(a.y, b.y)
  ELSE IF CompareTok(a.m, b.m) # 0 THEN CompareTok(a.m, b.m)
  ELSE CompareTok(a.d, b.d)

\* --------------------------------------------------------- rating engine
\* A history entry is [k, date, pct, rate]; k = "null" is a null element, and
\* a field the object does not have is Undefined.  A history is
\* [null, list]: null = TRUE is a null `entries` argument.
Undefined == [k |-> "undef", v |-> 0]

\* Number(x) for a field holding a number or undefined
Number(x) == IF x.k = "undef" THEN NaN ELSE x

\* [...(entries || [])].filter(Boolean)
FilterBoolean(entries) ==
  SelectSeq(IF entries.null THEN <<>> ELSE entries.list, LAMBDA e : e.k # "null")

\* Array.prototype.sort with (a, b) => (a.date || "").localeCompare(b.date || ""):
\* stable, by insertion of each element behind the last one not after it
RECURSIVE InsertByDate(_, _)
InsertByDate(s, e) ==
  IF s = <<>> THEN <<e>>
  ELSE IF localeCompareDate(s[Len(s)].date, e.date) <= 0 THEN Append(s, e)
  ELSE Append(InsertByDate(SubSeq(s, 1, Len(s) - 1), e), s[Len(s)])

RECURSIVE SortByDate(_)
SortByDate(s) ==
  IF s = <<>> THEN <<>>
  ELSE InsertByDate(SortByDate(SubSeq(s, 1, Len(s) - 1)), s[Len(s)])

expectedPctNoBias(R, mu, width, neutral) ==
  RoundDiv(ONE * ONE, ONE + Pow(10 * ONE, 0 - RoundDiv(R - mu, width)))

expectedPct(R, mu, width, neutral) ==
  LET nz == Min(MILLION - 1, Max(1, neutral))
      bias == Log10(RoundDiv(nz * ONE, MILLION - nz))
      expo == 0 - (RoundDiv(R - mu, width) + bias)
  IN RoundDiv(ONE * ONE, ONE + Pow(10 * ONE, expo))

\* the age without Math.max(0, ...)
ageDaysSigned(todayUTC, when) == todayUTC - when

ageDays(todayUTC, when) == Max(0, todayUTC - when)

\* no decay: every entry weighs 1
decayNone(age, halfLifeDays) == ONE

decay(age, halfLifeDays) ==
  IF halfLifeDays > 0 THEN Pow(ONE \div 2, RoundDiv(age * ONE, halfLifeDays)) ELSE ONE

\* the loop body with the decay factor left out of the update
UpdateUndecayed(R, e, o) ==
  LET r == Clamp01(Number(e.pct))
      when == toUTC(e.date)
  IN IF ~IsFinite(r) THEN R
     ELSE IF ~IsFinite(when) THEN R
     ELSE R + RoundDiv(o.K * ONE * (r.v - expectedPct(R, o.mu, o.width, o.neutral)), ONE)

\* one pass of the loop body over entry e from rating R
Update(R, e, o) ==
  LET r == Clamp01(Number(e.pct))
      when == toUTC(e.date)
  IN IF ~IsFinite(r) THEN R
     ELSE IF ~IsFinite(when) THEN R
     ELSE R + RoundDiv(o.K * decay(ageDays(floorUTC(o.today), when.v), o.halfLifeDays)
                           * (r.v - expectedPct(R, o.mu, o.width, o.neutral)), ONE)

RECURSIVE Fold(_, _, _)
Fold(R, sorted, o) ==
  IF sorted = <<>> THEN R ELSE Fold(Update(R, Head(sorted), o), Tail(sorted), o)

\* `return Math.round(R)` as in the older variant
computePlayerRatingRounded(entries, o) ==
  RoundDiv(Fold(o.initial, SortByDate(FilterBoolean(entries)), o), ONE) * ONE

computePlayerRating(entries, o) == Fold(o.initial, SortByDate(FilterBoolean(entries)), o)

\* Math.round(R) of a rating, in rating units
Round(R) == RoundDiv(R, ONE) * ONE

\* leaderboard/rz9Utils.js: reads e.rate, has no neutral calibration, rounds
legacyExpected(R, mu, width) ==
  RoundDiv(ONE * ONE, ONE + Pow(10 * ONE, RoundDiv(0 - (R - mu), width)))

legacyUpdate(R, e, o) ==
  LET r == Clamp01(Number(e.rate))
      when == toUTC(e.date)
  IN IF ~IsFinite(r) THEN R
     ELSE IF ~IsFinite(when) THEN R
     ELSE R + RoundDiv(o.K * decay(ageDays(floorUTC(o.today), when.v), o.halfLifeDays)
                           * (r.v - legacyExpected(R, o.mu, o.width)), ONE)

RECURSIVE legacyFold(_, _, _)
legacyFold(R, sorted, o) ==
  IF sorted = <<>> THEN R
  ELSE legacyFold(legacyUpdate(R, Head(sorted), o), Tail(sorted), o)

legacyComputePlayerRating(entries, o) ==
  Round(legacyFold(o.initial, SortByDate(FilterBoolean(entries)), o))

\* ------------------------------------------------------------------- state
VARIABLES
  entries,        \* the history handed to computePlayerRating
  opts,           \* its options argument
  rating,         \* what rz9/rz9Utils.js computePlayerRating returned
  legacyRating,   \* what leaderboard/rz9Utils.js computePlayerRating returned
  rated,          \* which of the two have returned
  practices,      \* the practice collection handed to aggregatePlayerStats
  TODAY,          \* the module-level `new Date()` behind the default today
  playerMap,      \* the Map aggregatePlayerStats returned, in insertion order
  leaderboard,    \* the rows toLeaderboard returned
  stage,          \* how far the useMemo pipeline has run
  manifest,       \* what fetchManifest() settled with
  lpc,            \* the await the load effect is suspended at
  idx,            \* the position of `for (const file of manifest)`
  loaded,         \* the load effect's local array
  cancelled,      \* the load effect's flag, set by its cleanup
  error,          \* Leaderboard state
  loading,        \* Leaderboard state
  setCalls,       \* the number of setPractices calls so far
  fetchLog,       \* the fetchPractice calls settled so far, with their outcome
  selectedPlayer,   \* Leaderboard state: the player of the open PlayerDetails
  playerRows,       \* PlayerDetails' useMemo rows
  selectedPractice, \* Leaderboard state: the date of the open PracticeDetails
  pdDeps,           \* the practiceDate the fetch effect of PracticeDetails last ran for
  pdData,           \* PracticeDetails state
  pdLoading,        \* PracticeDetails state
  pdError,          \* PracticeDetails state
  pdFetches         \* the fetches PracticeDetails started: date, cancelled flag, outcome

vars == <<entries, opts, rating, legacyRating, rated,
          practices, TODAY, playerMap, leaderboard, stage,
          manifest, lpc, idx, loaded, cancelled, error, loading, setCalls, fetchLog,
          selectedPlayer, playerRows, selectedPractice, pdDeps, pdData, pdLoading, pdError, pdFetches>>

detailVars == <<selectedPlayer, playerRows, selectedPractice, pdDeps, pdData, pdLoading, pdError, pdFetches>>

loaderVars == <<manifest, lpc, idx, loaded, cancelled, error, loading, setCalls, fetchLog>>

ratingVars == <<entries, opts, rating, legacyRating, rated>>
pipelineVars == <<practices, TODAY, playerMap, leaderboard, stage>>

\* sequences over S of length at most n
RECURSIVE SeqsUpTo(_, _)
SeqsUpTo(S, n) ==
  IF n = 0 THEN {<<>>}
  ELSE LET shorter == SeqsUpTo(S, n - 1)
       IN shorter \cup {Append(s, x) : s \in {t \in shorter : Len(t) = n - 1}, x \in S}

Today1 == [y |-> 2025, m |-> 9, d |-> 10, ms |-> 0]

\* ------------------------------------------- the rating engine on its own
EntryDates == {YMD(2025, 9, 3), YMD(2025, 9, 10), TextDate}
EntryRates == {Num(0), Num(ONE \div 2), Num(NEUTRAL \div ONE), Num(ONE), NaN}
EntrySet == {[k |-> "obj", date |-> d, pct |-> r, rate |-> r] : d \in EntryDates, r \in EntryRates}
HistorySet ==
  {[null |-> TRUE, list |-> <<>>]}
    \cup {[null |-> FALSE, list |-> s] : s \in SeqsUpTo(EntrySet, MaxEntries)}
OptsSet ==
  [initial : {INITIAL * ONE, INITIAL * ONE + ONE \div 2},
   K : {STEP},
   halfLifeDays : {HALF_LIFE, 0},
   mu : {MU * ONE},
   width : {WIDTH},
   today : {Today1},
   neutral : {NEUTRAL, MILLION \div 2}]

NoError == "null"
Pending == [k |-> "pending", files |-> <<>>]

NoSelection == "null"
NoData == [k |-> "null"]

\* no drill-down has been opened
DetailIdle ==
  /\ selectedPlayer = NoSelection
  /\ playerRows = <<>>
  /\ selectedPractice = NoSelection
  /\ pdDeps = NoSelection
  /\ pdData = NoData
  /\ pdLoading = FALSE
  /\ pdError = NoError
  /\ pdFetches = <<>>

\* the load effect has not run
LoaderIdle ==
  /\ manifest = Pending
  /\ lpc = "unmounted"
  /\ idx = 0
  /\ loaded = <<>>
  /\ cancelled = FALSE
  /\ error = NoError
  /\ loading = TRUE
  /\ setCalls = 0
  /\ fetchLog = <<>>

PipelineIdle ==
  /\ practices = <<>>
  /\ TODAY = Today1
  /\ playerMap = <<>>
  /\ leaderboard = <<>>
  /\ stage = "idle"

RatingInit ==
  /\ entries \in HistorySet
  /\ opts \in OptsSet
  /\ rating = 0
  /\ legacyRating = 0
  /\ rated = {}
  /\ PipelineIdle
  /\ LoaderIdle
  /\ DetailIdle

Rate ==
  /\ "rz9" \notin rated
  /\ rating' = computePlayerRating(entries, opts)
  /\ rated' = rated \cup {"rz9"}
  /\ UNCHANGED <<entries, opts, legacyRating, pipelineVars, loaderVars, detailVars>>

RateLegacy ==
  /\ "leaderboard" \notin rated
  /\ legacyRating' = legacyComputePlayerRating(entries, opts)
  /\ rated' = rated \cup {"leaderboard"}
  /\ UNCHANGED <<entries, opts, rating, pipelineVars, loaderVars, detailVars>>

RatingNext == Rate \/ RateLegacy

SpecRating == RatingInit /\ [][RatingNext]_vars

\* ------------------------------------------------------------- aggregation
\* A practice record is [k, hasTeams, hasResults, date, teams, results]:
\* k = "null" is a null record; hasTeams/hasResults = FALSE is a record
\* without that property.  A team is [team_id, rosterIsArray, roster], a
\* result is [team_id, reps, scores].  A Map is the sequence of its entries in
\* insertion order.

\* an unknown team_id falls back to the first team's roster
RECURSIVE RosterOfFallback(_, _)
RosterOfFallback(teams, id) ==
  IF teams = <<>> THEN <<>>
  ELSE LET t == teams[Len(teams)]
       IN IF t.team_id = id \/ Len(teams) = 1
          THEN (IF t.rosterIsArray THEN t.roster ELSE <<>>)
          ELSE RosterOfFallback(SubSeq(teams, 1, Len(teams) - 1), id)

\* teamRoster.get(id) || [] after the loop of teamRoster.set over p.teams: the
\* last team with that id wins, a roster that is no array counts as []
RECURSIVE RosterOf(_, _)
RosterOf(teams, id) ==
  IF teams = <<>> THEN <<>>
  ELSE LET t == teams[Len(teams)]
       IN IF t.team_id = id
          THEN (IF t.rosterIsArray THEN t.roster ELSE <<>>)
          ELSE RosterOf(SubSeq(teams, 1, Len(teams) - 1), id)

MapHas(map, player) == \E i \in 1..Len(map) : map[i].player = player

\* `cur.scored = scores` in place of `+=`
CreditOverwrite(map, player, date, reps, scores) ==
  LET m0 == IF MapHas(map, player) THEN map
            ELSE Append(map, [player |-> player, scored |-> 0, reps |-> 0, practices |-> <<>>])
  IN [i \in 1..Len(m0) |->
        IF m0[i].player = player
        THEN [m0[i] EXCEPT !.scored = scores,
                           !.reps = reps,
                           !.practices = Append(@, [k |-> "obj", date |-> date,
                                                    pct |-> Divide(scores, reps),
                                                    rate |-> Undefined])]
        ELSE m0[i]]

\* the body of `for (const player of roster)`
Credit(map, player, date, reps, scores) ==
  LET m0 == IF MapHas(map, player) THEN map
            ELSE Append(map, [player |-> player, scored |-> 0, reps |-> 0, practices |-> <<>>])
  IN [i \in 1..Len(m0) |->
        IF m0[i].player = player
        THEN [m0[i] EXCEPT !.scored = @ + scores,
                           !.reps = @ + reps,
                           !.practices = Append(@, [k |-> "obj", date |-> date,
                                                    pct |-> Divide(scores, reps),
                                                    rate |-> Undefined])]
        ELSE m0[i]]

\* the player loop with entries de-duplicated by date: a player who already
\* has an entry of this date is passed over
RECURSIVE CreditRosterOnce(_, _, _, _, _)
CreditRosterOnce(map, roster, date, reps, scores) ==
  IF roster = <<>> THEN map
  ELSE LET seen == \E i \in 1..Len(map) :
                     /\ map[i].player = Head(roster)
                     /\ \E j \in 1..Len(map[i].practices) : map[i].practices[j].date = date
       IN CreditRosterOnce(IF seen THEN map ELSE Credit(map, Head(roster), date, reps, scores),
                           Tail(roster), date, reps, scores)

\* `for (const player of roster)`
RECURSIVE CreditRoster(_, _, _, _, _)
CreditRoster(map, roster, date, reps, scores) ==
  IF roster = <<>> THEN map
  ELSE CreditRoster(Credit(map, Head(roster), date, reps, scores),
                    Tail(roster), date, reps, scores)

\* the body of `for (const r of p.results)`
RECURSIVE CreditResults(_, _, _)
CreditResults(map, p, results) ==
  IF results = <<>> THEN map
  ELSE LET r == Head(results)
       IN CreditResults(CreditRoster(map, RosterOf(p.teams, r.team_id), p.date, r.reps, r.scores),
                        p, Tail(results))

\* !p || !p.teams || !p.results
Malformed(p) == p.k = "null" \/ ~p.hasTeams \/ ~p.hasResults

\* `break` in place of `continue`
RECURSIVE FoldPracticesBreak(_, _)
FoldPracticesBreak(map, ps) ==
  IF ps = <<>> THEN map
  ELSE IF Malformed(Head(ps)) THEN map
  ELSE FoldPracticesBreak(CreditResults(map, Head(ps), Head(ps).results), Tail(ps))

\* `for (const p of practices)`
RECURSIVE FoldPractices(_, _)
FoldPractices(map, ps) ==
  IF ps = <<>> THEN map
  ELSE IF Malformed(Head(ps)) THEN FoldPractices(map, Tail(ps))
  ELSE FoldPractices(CreditResults(map, Head(ps), Head(ps).results), Tail(ps))

aggregatePlayerStats(ps) == FoldPractices(<<>>, ps)

\* ------------------------------------------------------------- leaderboard
PlayerNames == <<"X", "Y", "Z">>     \* in localeCompare order

NameRank(player) == CHOOSE i \in 1..Len(PlayerNames) : PlayerNames[i] = player

Sign(n) == IF n < 0 THEN 0 - 1 ELSE IF n > 0 THEN 1 ELSE 0

localeCompareName(a, b) == Sign(NameRank(a) - NameRank(b))

\* the comparator handed to rows.sort
compareRows(a, b) ==
  IF b.rating # a.rating THEN b.rating - a.rating
  ELSE IF b.pct # a.pct THEN b.pct - a.pct
  ELSE IF b.reps # a.reps THEN a.reps - a.reps
  ELSE localeCompareName(a.player, b.player)

\* Array.prototype.sort with compareRows: stable, by insertion of each row
\* behind the last one that does not compare after it
RECURSIVE InsertRow(_, _)
InsertRow(s, e) ==
  IF s = <<>> THEN <<e>>
  ELSE IF compareRows(s[Len(s)], e) <= 0 THEN Append(s, e)
  ELSE Append(InsertRow(SubSeq(s, 1, Len(s) - 1), e), s[Len(s)])

RECURSIVE SortRows(_)
SortRows(s) ==
  IF s = <<>> THEN <<>>
  ELSE InsertRow(SortRows(SubSeq(s, 1, Len(s) - 1)), s[Len(s)])

\* the defaults of computePlayerRating's options
DefaultOpts(today) ==
  [initial |-> INITIAL * ONE, K |-> STEP, halfLifeDays |-> HALF_LIFE, mu |-> MU * ONE,
   width |-> WIDTH, today |-> today, neutral |-> NEUTRAL]

ToRow(e, today) ==
  [player |-> e.player, scored |-> e.scored, reps |-> e.reps,
   pct |-> IF e.reps > 0 THEN RoundDiv(e.scored * ONE, e.reps) ELSE 0,
   rating |-> computePlayerRating([null |-> FALSE, list |-> e.practices], DefaultOpts(today))]

toLeaderboard(map, today) == SortRows([i \in 1..Len(map) |-> ToRow(map[i], today)])

\* ------------------------------------------------- the useMemo pipeline
TeamA(roster) == [team_id |-> "A", rosterIsArray |-> TRUE, roster |-> roster]
TeamB(roster) == [team_id |-> "B", rosterIsArray |-> TRUE, roster |-> roster]
Result(id, reps, scores) == [team_id |-> id, reps |-> reps, scores |-> scores]

TeamsSet ==
  { <<TeamA(<<"X", "Y">>), TeamB(<<"Z">>)>>,
    <<TeamA(<<"X">>), TeamB(<<"X", "Z">>)>> }
ResultsSet ==
  { <<Result("A", 4, 2), Result("B", 2, 1)>>,
    <<Result("C", 4, 2), Result("A", 0, 0)>>,
    <<Result("B", 4, 4)>> }
PracticeDates == {YMD(2025, 9, 3), YMD(2025, 9, 10)}

NullPractice ==
  [k |-> "null", hasTeams |-> FALSE, hasResults |-> FALSE, date |-> EmptyDate,
   teams |-> <<>>, results |-> <<>>]
WellFormed ==
  {[k |-> "obj", hasTeams |-> TRUE, hasResults |-> TRUE, date |-> d, teams |-> t, results |-> r] :
     d \in PracticeDates, t \in TeamsSet, r \in ResultsSet}
MissingTeams ==
  [k |-> "obj", hasTeams |-> FALSE, hasResults |-> TRUE, date |-> YMD(2025, 9, 3),
   teams |-> <<>>, results |-> <<Result("A", 4, 2)>>]
MissingResults ==
  [k |-> "obj", hasTeams |-> TRUE, hasResults |-> FALSE, date |-> YMD(2025, 9, 3),
   teams |-> <<TeamA(<<"X", "Y">>)>>, results |-> <<>>]
PracticeSet == WellFormed \cup {NullPractice, MissingTeams, MissingResults}

RatingIdle ==
  /\ entries = [null |-> TRUE, list |-> <<>>]
  /\ opts = DefaultOpts(Today1)
  /\ rating = 0
  /\ legacyRating = 0
  /\ rated = {}

PipelineInit ==
  /\ practices \in SeqsUpTo(PracticeSet, MaxPractices)
  /\ TODAY = Today1
  /\ playerMap = <<>>
  /\ leaderboard = <<>>
  /\ stage = "idle"
  /\ RatingIdle
  /\ LoaderIdle
  /\ DetailIdle

\* useMemo(() => aggregatePlayerStats(practices), [practices])
Aggregate ==
  /\ stage = "idle"
  /\ playerMap' = aggregatePlayerStats(practices)
  /\ stage' = "aggregated"
  /\ UNCHANGED <<practices, TODAY, leaderboard, ratingVars, loaderVars, detailVars>>

\* useMemo(() => toLeaderboard(playerMap), [playerMap])
Rank ==
  /\ stage = "aggregated"
  /\ leaderboard' = toLeaderboard(playerMap, TODAY)
  /\ stage' = "ranked"
  /\ UNCHANGED <<practices, TODAY, playerMap, ratingVars, loaderVars, detailVars>>

PipelineNext == Aggregate \/ Rank

SpecPipeline == PipelineInit /\ [][PipelineNext]_vars

\* ------------------------------------------------------ the load effect
\* Leaderboard's useEffect: fetchManifest, then fetchPractice for each listed
\* file in turn, then sort and setPractices.  `manifest` is [k, files]:
\* k = "failed" is a rejected fetchManifest, k = "other" a JSON value that is
\* no array, k = "array" the listed files.
MaxManifest == 2     \* longest manifest

FileNames == {"2025-09-10.json", "2025-09-03.json", "2025-09-03b.json"}

Practice(date, teams, results) ==
  [k |-> "obj", hasTeams |-> TRUE, hasResults |-> TRUE, date |-> date,
   teams |-> teams, results |-> results]

\* what fetchPractice(file) resolves with when it resolves
FileContent(file) ==
  CASE file = "2025-09-10.json" ->
         Practice(YMD(2025, 9, 10), <<TeamA(<<"X", "Y">>), TeamB(<<"Z">>)>>,
                  <<Result("A", 4, 2), Result("B", 2, 1)>>)
    [] file = "2025-09-03.json" ->
         Practice(YMD(2025, 9, 3), <<TeamA(<<"X", "Y">>), TeamB(<<"Z">>)>>,
                  <<Result("B", 4, 4)>>)
    [] OTHER ->
         Practice(YMD(2025, 9, 3), <<TeamA(<<"X">>), TeamB(<<"X", "Z">>)>>,
                  <<Result("A", 4, 2), Result("B", 2, 1)>>)

ManifestSet ==
  {[k |-> "other", files |-> <<>>]}
    \cup {[k |-> "array", files |-> fs] : fs \in SeqsUpTo(FileNames, MaxManifest)}

\* loaded.sort((a, b) => (a?.date || "").localeCompare(b?.date || "")) left out
sortLoadedNone(all) == all

\* loaded.sort((a, b) => (a?.date || "").localeCompare(b?.date || ""))
sortLoaded(all) == SortByDate(all)

LoaderInit ==
  /\ manifest = Pending
  /\ lpc = "manifest"
  /\ idx = 0
  /\ loaded = <<>>
  /\ cancelled = FALSE
  /\ error = NoError
  /\ loading = TRUE
  /\ setCalls = 0
  /\ fetchLog = <<>>
  /\ PipelineIdle
  /\ RatingIdle
  /\ DetailIdle

otherVars == <<ratingVars, TODAY, playerMap, leaderboard, stage, detailVars>>

\* the cleanup of the effect
Teardown ==
  /\ ~cancelled
  /\ cancelled' = TRUE
  /\ UNCHANGED <<manifest, lpc, idx, loaded, error, loading, setCalls, fetchLog, practices, otherVars>>

\* fetchManifest() resolves with m, and the branch of the empty manifest
\* returns without setLoading(false)
ManifestResolvesStillLoading ==
  /\ lpc = "manifest"
  /\ \E m \in ManifestSet :
       /\ manifest' = m
       /\ IF cancelled
          THEN /\ lpc' = "done"
               /\ UNCHANGED <<idx, practices, loading, setCalls>>
          ELSE IF m.k # "array" \/ Len(m.files) = 0
          THEN /\ practices' = <<>>
               /\ setCalls' = setCalls + 1
               /\ lpc' = "done"
               /\ UNCHANGED <<idx, loading>>
          ELSE /\ idx' = 1
               /\ lpc' = "practice"
               /\ UNCHANGED <<practices, loading, setCalls>>
  /\ UNCHANGED <<loaded, cancelled, error, fetchLog, otherVars>>

\* fetchManifest() resolves with m
ManifestResolves ==
  /\ lpc = "manifest"
  /\ \E m \in ManifestSet :
       /\ manifest' = m
       /\ IF cancelled
          THEN /\ lpc' = "done"
               /\ UNCHANGED <<idx, practices, loading, setCalls>>
          ELSE IF m.k # "array" \/ Len(m.files) = 0
          THEN /\ practices' = <<>>
               /\ setCalls' = setCalls + 1
               /\ loading' = FALSE
               /\ lpc' = "done"
               /\ UNCHANGED idx
          ELSE /\ idx' = 1
               /\ lpc' = "practice"
               /\ UNCHANGED <<practices, loading, setCalls>>
  /\ UNCHANGED <<loaded, cancelled, error, fetchLog, otherVars>>

\* fetchManifest() rejects and nothing is reported
ManifestRejectsSilently ==
  /\ lpc = "manifest"
  /\ manifest' = [k |-> "failed", files |-> <<>>]
  /\ loading' = IF cancelled THEN loading ELSE FALSE
  /\ lpc' = "done"
  /\ UNCHANGED <<idx, loaded, cancelled, error, setCalls, fetchLog, practices, otherVars>>

\* fetchManifest() rejects: the outer catch and finally
ManifestRejects ==
  /\ lpc = "manifest"
  /\ manifest' = [k |-> "failed", files |-> <<>>]
  /\ error' = IF cancelled THEN error ELSE "Failed to load practice data."
  /\ loading' = IF cancelled THEN loading ELSE FALSE
  /\ lpc' = "done"
  /\ UNCHANGED <<idx, loaded, cancelled, setCalls, fetchLog, practices, otherVars>>

\* the code behind the loop, without the `if (!cancelled)` guards
AfterLoopUnguarded(all) ==
  /\ practices' = sortLoaded(all)
  /\ setCalls' = setCalls + 1
  /\ loading' = FALSE
  /\ lpc' = "done"
  /\ UNCHANGED <<idx, error>>

\* the code behind the loop: sort, setPractices, finally
AfterLoop(all) ==
  /\ practices' = IF cancelled THEN practices ELSE sortLoaded(all)
  /\ setCalls' = IF cancelled THEN setCalls ELSE setCalls + 1
  /\ loading' = IF cancelled THEN loading ELSE FALSE
  /\ lpc' = "done"
  /\ UNCHANGED <<idx, error>>

\* the loop publishes what it has after every file
NextFileOrFinishEager(all) ==
  /\ loaded' = all
  /\ IF idx < Len(manifest.files)
     THEN /\ idx' = idx + 1
          /\ practices' = all
          /\ setCalls' = setCalls + 1
          /\ UNCHANGED <<lpc, error, loading>>
     ELSE AfterLoop(all)

\* the loop moves to the next file, or ends
NextFileOrFinish(all) ==
  /\ loaded' = all
  /\ IF idx < Len(manifest.files)
     THEN /\ idx' = idx + 1
          /\ UNCHANGED <<lpc, practices, error, loading, setCalls>>
     ELSE AfterLoop(all)

\* fetchPractice(file) resolves: loaded.push(data)
PracticeResolves ==
  /\ lpc = "practice"
  /\ fetchLog' = Append(fetchLog, [file |-> manifest.files[idx], ok |-> TRUE])
  /\ NextFileOrFinish(Append(loaded, FileContent(manifest.files[idx])))
  /\ UNCHANGED <<manifest, cancelled, otherVars>>

\* fetchPractice(file) rejects and the rejection reaches the outer catch
PracticeRejectsAborts ==
  /\ lpc = "practice"
  /\ fetchLog' = Append(fetchLog, [file |-> manifest.files[idx], ok |-> FALSE])
  /\ error' = IF cancelled THEN error ELSE "Failed to load practice data."
  /\ loading' = IF cancelled THEN loading ELSE FALSE
  /\ lpc' = "done"
  /\ UNCHANGED <<idx, loaded, practices, setCalls, manifest, cancelled, otherVars>>

\* fetchPractice(file) rejects: the inner catch warns and the loop goes on
PracticeRejects ==
  /\ lpc = "practice"
  /\ fetchLog' = Append(fetchLog, [file |-> manifest.files[idx], ok |-> FALSE])
  /\ NextFileOrFinish(loaded)
  /\ UNCHANGED <<manifest, cancelled, otherVars>>

LoaderNext ==
  \/ Teardown
  \/ ManifestResolves
  \/ ManifestRejects
  \/ PracticeResolves
  \/ PracticeRejects

SpecLoader == LoaderInit /\ [][LoaderNext]_vars

\* every fetch that is awaited settles, and its continuation then runs
LoaderFairness ==
  /\ WF_vars(ManifestResolves \/ ManifestRejects)
  /\ WF_vars(PracticeResolves \/ PracticeRejects)

SpecLoaderLive == LoaderInit /\ [][LoaderNext]_vars /\ LoaderFairness

\* ------------------------------------------- the pipeline on the example
\* The practice of the end-to-end example, aggregated and ranked with
\* TODAY = new Date() taken on different days.
ExamplePractice ==
  Practice(YMD(2025, 9, 3), <<TeamA(<<"X", "Y">>), TeamB(<<"Z">>)>>,
           <<Result("A", 18, 11), Result("B", 10, 5)>>)

ExampleSet == {ExamplePractice, [ExamplePractice EXCEPT !.date = YMD(2025, 9, 10)]}

\* the days the module may be loaded on: before, on and after the practice
TodaySet ==
  { [y |-> 2025, m |-> 9, d |-> 1, ms |-> 0],
    [y |-> 2025, m |-> 9, d |-> 3, ms |-> 43200000],
    [y |-> 2025, m |-> 9, d |-> 4, ms |-> 0],
    Today1,
    [y |-> 2025, m |-> 9, d |-> 24, ms |-> 0],
    [y |-> 2026, m |-> 1, d |-> 1, ms |-> 0] }

ExampleInit ==
  /\ practices \in SeqsUpTo(ExampleSet, MaxPractices)
  /\ TODAY \in TodaySet
  /\ playerMap = <<>>
  /\ leaderboard = <<>>
  /\ stage = "idle"
  /\ RatingIdle
  /\ LoaderIdle
  /\ DetailIdle

SpecExample == ExampleInit /\ [][PipelineNext]_vars

\* ------------------------------------- the rating engine on odd entries
\* computePlayerRating with the defaults and with decay switched off, on
\* entries whose date is today's, a week old, in the future, decades old,
\* empty, or has a piece that is no number, and whose rate may be infinite.
OddDates ==
  { YMD(2025, 9, 10), YMD(2025, 9, 3), YMD(2025, 9, 20), YMD(1950, 1, 1),
    EmptyDate, [y |-> Digits(2025), m |-> Digits(9), d |-> Text], TextDate }
OddRates == {Num(NEUTRAL \div ONE), Num(ONE), NaN, PosInf}
OddEntrySet == {[k |-> "obj", date |-> d, pct |-> r, rate |-> r] : d \in OddDates, r \in OddRates}

EntriesInit ==
  /\ entries \in {[null |-> FALSE, list |-> s] : s \in SeqsUpTo(OddEntrySet, MaxEntries)}
  /\ opts \in {[DefaultOpts(Today1) EXCEPT !.halfLifeDays = h] : h \in {HALF_LIFE, 0}}
  /\ rating = 0
  /\ legacyRating = 0
  /\ rated = {}
  /\ PipelineIdle
  /\ LoaderIdle
  /\ DetailIdle

SpecEntries == EntriesInit /\ [][Rate]_vars

\* ------------------------------------- the fetch effect of PracticeDetails
\* PracticeDetails is open for the date in selectedPractice.  Its effect runs
\* after the render in which [open, practiceDate] changed: the cleanup of the
\* previous run sets that run's `cancelled`, then the new run starts a fetch.
\* pdFetches lists the fetches started, each with its run's flag.
MaxFetches == 3     \* most fetches PracticeDetails starts

PracticeNames == {"2025-09-03", "2025-09-10"}

\* what fetch(`/rz9_data/${practiceDate}.json`) and res.json() give when they succeed
DetailContent(date) ==
  FileContent(IF date = "2025-09-03" THEN "2025-09-03.json" ELSE "2025-09-10.json")

\* `Failed to load ${practiceDate}.json`
ErrorFor(date) ==
  IF date = "2025-09-03" THEN "Failed to load 2025-09-03.json"
  ELSE "Failed to load 2025-09-10.json"

DetailsInit ==
  /\ DetailIdle
  /\ PipelineIdle
  /\ RatingIdle
  /\ LoaderIdle

idleVars == <<ratingVars, pipelineVars, loaderVars, selectedPlayer, playerRows>>

\* setSelectedPractice(date) from a row of PlayerDetails, setSelectedPractice(null)
\* from onClose; the effects of the render before have run
SelectPractice ==
  /\ pdDeps = selectedPractice
  /\ \E d \in PracticeNames \cup {NoSelection} :
       /\ d # selectedPractice
       /\ d # NoSelection => Len(pdFetches) < MaxFetches
       /\ selectedPractice' = d
  /\ UNCHANGED <<pdDeps, pdData, pdLoading, pdError, pdFetches, idleVars>>

\* the cleanup of the previous run, then the effect for the new deps
RunEffect ==
  /\ pdDeps # selectedPractice
  /\ pdDeps' = selectedPractice
  /\ LET cleaned == IF pdDeps = NoSelection THEN pdFetches
                    ELSE [pdFetches EXCEPT ![Len(pdFetches)].cancelled = TRUE]
     IN IF selectedPractice = NoSelection
        THEN /\ pdFetches' = cleaned
             /\ UNCHANGED <<pdLoading, pdError>>
        ELSE /\ pdFetches' = Append(cleaned, [date |-> selectedPractice, cancelled |-> FALSE,
                                              state |-> "pending"])
             /\ pdLoading' = TRUE
             /\ pdError' = NoError
  /\ UNCHANGED <<selectedPractice, pdData, idleVars>>

\* the continuation of fetch i without the `if (!cancelled)` guards
SettleUnguarded(i, ok) ==
  /\ pdFetches[i].state = "pending"
  /\ pdFetches' = [pdFetches EXCEPT ![i].state = IF ok THEN "ok" ELSE "failed"]
  /\ pdData' = IF ok THEN DetailContent(pdFetches[i].date) ELSE pdData
  /\ pdError' = IF ok THEN pdError ELSE ErrorFor(pdFetches[i].date)
  /\ pdLoading' = FALSE

\* the continuation of fetch i: setData or setError, then finally
Settle(i, ok) ==
  /\ pdFetches[i].state = "pending"
  /\ pdFetches' = [pdFetches EXCEPT ![i].state = IF ok THEN "ok" ELSE "failed"]
  /\ IF pdFetches[i].cancelled
     THEN UNCHANGED <<pdData, pdError, pdLoading>>
     ELSE /\ pdData' = IF ok THEN DetailContent(pdFetches[i].date) ELSE pdData
          /\ pdError' = IF ok THEN pdError ELSE ErrorFor(pdFetches[i].date)
          /\ pdLoading' = FALSE

\* a fetch and its res.json() succeed
FetchResolves ==
  /\ \E i \in 1..Len(pdFetches) : Settle(i, TRUE)
  /\ UNCHANGED <<selectedPractice, pdDeps, idleVars>>

\* a fetch fails, answers with a status that is not ok, or its body is no JSON
FetchRejects ==
  /\ \E i \in 1..Len(pdFetches) : Settle(i, FALSE)
  /\ UNCHANGED <<selectedPractice, pdDeps, idleVars>>

DetailsNext ==
  \/ SelectPractice
  \/ RunEffect
  \/ FetchResolves
  \/ FetchRejects

SpecDetails == DetailsInit /\ [][DetailsNext]_vars

\* ------------------------------------------------- the player drill-down
\* leaderboard/PlayerDetails.js, opened from a row of the leaderboard table
\* with the practices the leaderboard was built from.

\* the reps and scores of the first result of each listed team, summed
RECURSIVE SumTeams(_, _)
SumTeams(teams, results) ==
  IF teams = <<>> THEN [reps |-> 0, scores |-> 0]
  ELSE LET rest == SumTeams(Tail(teams), results)
           found == SelectSeq(results, LAMBDA x : x.team_id = Head(teams).team_id)
       IN IF found = <<>> THEN rest
          ELSE [reps |-> found[1].reps + rest.reps, scores |-> found[1].scores + rest.scores]

\* (p.teams || []).filter((t) => Array.isArray(t.roster) && t.roster.includes(player))
TeamsWithPlayer(p, player) ==
  SelectSeq(p.teams, LAMBDA t : t.rosterIsArray /\ \E i \in 1..Len(t.roster) : t.roster[i] = player)

\* the row of a practice when only the first team of the player is counted
RowOfFirstTeam(p, player) ==
  LET mine == SubSeq(TeamsWithPlayer(p, player), 1, 1)
      sum == SumTeams(mine, p.results)
  IN [k |-> "obj", date |-> p.date,
      teamIds |-> [i \in 1..Len(mine) |-> mine[i].team_id],
      reps |-> sum.reps, scores |-> sum.scores,
      pct |-> IF sum.reps > 0 THEN Divide(sum.scores, sum.reps) ELSE Num(0),
      rate |-> Undefined]

\* the row pushed for practice p: { date, teamIds, reps, scores, pct }
RowOf(p, player) ==
  LET mine == TeamsWithPlayer(p, player)
      sum == SumTeams(mine, p.results)
  IN [k |-> "obj", date |-> p.date,
      teamIds |-> [i \in 1..Len(mine) |-> mine[i].team_id],
      reps |-> sum.reps, scores |-> sum.scores,
      pct |-> IF sum.reps > 0 THEN Divide(sum.scores, sum.reps) ELSE Num(0),
      rate |-> Undefined]

\* `for (const p of practices)` of the rows useMemo
RECURSIVE RowsIn(_, _)
RowsIn(ps, player) ==
  IF ps = <<>> THEN <<>>
  ELSE IF Malformed(Head(ps)) \/ TeamsWithPlayer(Head(ps), player) = <<>>
  THEN RowsIn(Tail(ps), player)
  ELSE <<RowOf(Head(ps), player)>> \o RowsIn(Tail(ps), player)

\* out.sort((a, b) => (b.date || "").localeCompare(a.date || "")): stable,
\* newest first
RECURSIVE InsertNewestFirst(_, _)
InsertNewestFirst(s, e) ==
  IF s = <<>> THEN <<e>>
  ELSE IF localeCompareDate(e.date, s[Len(s)].date) <= 0 THEN Append(s, e)
  ELSE Append(InsertNewestFirst(SubSeq(s, 1, Len(s) - 1), e), s[Len(s)])

RECURSIVE SortNewestFirst(_)
SortNewestFirst(s) ==
  IF s = <<>> THEN <<>>
  ELSE InsertNewestFirst(SortNewestFirst(SubSeq(s, 1, Len(s) - 1)), s[Len(s)])

\* the rows useMemo
PlayerRowsOf(player, ps) ==
  IF player = NoSelection THEN <<>> ELSE SortNewestFirst(RowsIn(ps, player))

\* the totals useMemo
RECURSIVE RowTotals(_)
RowTotals(rs) ==
  IF rs = <<>> THEN [reps |-> 0, scores |-> 0]
  ELSE LET rest == RowTotals(Tail(rs))
       IN [reps |-> Head(rs).reps + rest.reps, scores |-> Head(rs).scores + rest.scores]

\* the defaults of computePlayerRating in leaderboard/rz9Utils.js
LegacyDefaultOpts(today) ==
  [initial |-> 1000 * ONE, K |-> 60, halfLifeDays |-> 28, mu |-> 1000 * ONE,
   width |-> 400, today |-> today]

\* Math.round(computePlayerRating(rows)) with the computePlayerRating that
\* PlayerDetails.js imports from ./rz9Utils
CurrentRating(rs, today) ==
  Round(legacyComputePlayerRating([null |-> FALSE, list |-> rs], LegacyDefaultOpts(today)))

DrillInit == PipelineInit

\* a row of the leaderboard table is clicked
SelectPlayer ==
  /\ stage = "ranked"
  /\ selectedPlayer = NoSelection
  /\ \E i \in 1..Len(PlayerNames) :
       /\ selectedPlayer' = PlayerNames[i]
       /\ playerRows' = PlayerRowsOf(PlayerNames[i], practices)
  /\ UNCHANGED <<selectedPractice, pdDeps, pdData, pdLoading, pdError, pdFetches,
                 ratingVars, pipelineVars, loaderVars>>

\* onClose of PlayerDetails
ClosePlayer ==
  /\ selectedPlayer # NoSelection
  /\ selectedPlayer' = NoSelection
  /\ playerRows' = PlayerRowsOf(NoSelection, practices)
  /\ UNCHANGED <<selectedPractice, pdDeps, pdData, pdLoading, pdError, pdFetches,
                 ratingVars, pipelineVars, loaderVars>>

DrillNext ==
  \/ Aggregate
  \/ Rank
  \/ SelectPlayer
  \/ ClosePlayer

SpecDrill == DrillInit /\ [][DrillNext]_vars

\* ------------------------------------------------------------------ claims
\* every reordering of the sequence s
PermsOf(s) == {[i \in 1..Len(s) |-> s[f[i]]] : f \in Permutations(1..Len(s))}

CountIn(s, e) == Cardinality({i \in 1..Len(s) : s[i] = e})
SameMultiset(s, t) ==
  /\ Len(s) = Len(t)
  /\ \A i \in 1..Len(s) : CountIn(s, s[i]) = CountIn(t, s[i])

\* C1: computePlayerRating returns the same rating for every permutation of
\* the history's entries, entries of equal date and different rate included.
C1_PermutationInvariant ==
  "rz9" \in rated =>
    \A perm \in PermsOf(entries.list) :
      computePlayerRating([null |-> entries.null, list |-> perm], opts) = rating

\* C2: the order of toLeaderboard's rows does not depend on the insertion
\* order of the player map it is given.
C2_InsertionOrderIrrelevant ==
  stage = "ranked" =>
    \A map \in PermsOf(playerMap) : toLeaderboard(map, TODAY) = leaderboard

RowsTied(a, b) == compareRows(a, b) = 0 /\ compareRows(b, a) = 0
FullyTied(a, b) ==
  a.rating = b.rating /\ a.pct = b.pct /\ a.reps = b.reps /\ a.player = b.player

\* C3: the comparator of toLeaderboard is a strict weak ordering: it returns 0
\* for two rows of distinct players only if they are tied on rating, pct, reps
\* and name; being tied is transitive; sorting the sorted rows changes nothing.
C3_StrictWeakOrdering ==
  stage = "ranked" =>
    LET rows == {leaderboard[i] : i \in 1..Len(leaderboard)}
    IN /\ \A a, b \in rows : compareRows(a, b) = 0 => FullyTied(a, b)
       /\ \A a, b, c \in rows : RowsTied(a, b) /\ RowsTied(b, c) => RowsTied(a, c)
       /\ SortRows(leaderboard) = leaderboard

\* the players' history entries for date d carrying rate r
HasEntry(map, player, d, r) ==
  \E i \in 1..Len(map) :
    /\ map[i].player = player
    /\ \E j \in 1..Len(map[i].practices) :
         map[i].practices[j].date = d /\ map[i].practices[j].pct = r

\* C4: a team of a practice that has no result with its team_id gives each
\* player of its roster a history entry for that practice with rate 0, so the
\* player is in the player map.
C4_TeamWithoutResultGetsZeroEntry ==
  stage # "idle" =>
    \A n \in 1..Len(practices) :
      LET p == practices[n]
      IN ~Malformed(p) =>
           \A t \in 1..Len(p.teams) :
             (\A r \in 1..Len(p.results) : p.results[r].team_id # p.teams[t].team_id) =>
               \A player \in {p.teams[t].roster[i] : i \in 1..Len(p.teams[t].roster)} :
                 MapHas(playerMap, player) /\ HasEntry(playerMap, player, p.date, Num(0))

\* C5: every history entry aggregatePlayerStats appends carries scores/reps
\* when reps > 0 and 0 when reps = 0, never NaN or Infinity, and a result with
\* no reps still gives each rostered player an entry of rate 0.
C5_RateNeverNaN ==
  stage # "idle" =>
    /\ \A i \in 1..Len(playerMap) : \A j \in 1..Len(playerMap[i].practices) :
         IsFinite(playerMap[i].practices[j].pct)
    /\ \A n \in 1..Len(practices) :
         LET p == practices[n]
         IN ~Malformed(p) =>
              \A r \in 1..Len(p.results) :
                LET res == p.results[r]
                    roster == RosterOf(p.teams, res.team_id)
                IN \A i \in 1..Len(roster) :
                     HasEntry(playerMap, roster[i], p.date,
                              IF res.reps > 0 THEN Num(RoundDiv(res.scores * ONE, res.reps))
                              ELSE Num(0))

\* the results of p whose team_id names one of p's teams
Matched(p) ==
  SelectSeq(p.results, LAMBDA r : \E t \in 1..Len(p.teams) : p.teams[t].team_id = r.team_id)
DropUnmatched(ps) ==
  [n \in 1..Len(ps) |-> IF Malformed(ps[n]) THEN ps[n] ELSE [ps[n] EXCEPT !.results = Matched(ps[n])]]

\* C6: a result whose team_id matches no team of its practice changes no
\* player's totals or history and creates no key of the player map; the
\* other results are attributed as usual.
C6_UnmatchedResultIgnored ==
  stage # "idle" => playerMap = aggregatePlayerStats(DropUnmatched(practices))

C6_Witness ==
  /\ stage = "aggregated"
  /\ playerMap # <<>>
  /\ \E n \in 1..Len(practices) :
       /\ ~Malformed(practices[n])
       /\ Len(Matched(practices[n])) = 1
       /\ Len(practices[n].results) = 2
       /\ practices[n].results[1].team_id = "C"

PlayersOf(map) == {map[i].player : i \in 1..Len(map)}
EntryOf(map, player) == map[CHOOSE i \in 1..Len(map) : map[i].player = player]
SameAggregates(m1, m2) ==
  /\ PlayersOf(m1) = PlayersOf(m2)
  /\ \A player \in PlayersOf(m1) :
       /\ EntryOf(m1, player).scored = EntryOf(m2, player).scored
       /\ EntryOf(m1, player).reps = EntryOf(m2, player).reps
       /\ SameMultiset(EntryOf(m1, player).practices, EntryOf(m2, player).practices)

\* C7: for every reordering of the practice collection aggregatePlayerStats
\* gives the same players, each with the same totalScored and totalReps and
\* the same multiset of history entries.
C7_AggregationCommutes ==
  stage # "idle" =>
    \A perm \in PermsOf(practices) : SameAggregates(aggregatePlayerStats(perm), playerMap)

C7_Witness ==
  /\ stage = "aggregated"
  /\ Len(practices) >= 2
  /\ ~Malformed(practices[1]) /\ ~Malformed(practices[2])
  /\ \E i \in 1..Len(playerMap) : Len(playerMap[i].practices) >= 2
  /\ \E perm \in PermsOf(practices) : aggregatePlayerStats(perm) # playerMap

Skipped(e) == ~IsFinite(Clamp01(Number(e.pct))) \/ ~IsFinite(toUTC(e.date))
AllSkipped(h) == h.null \/ \A i \in 1..Len(h.list) : Skipped(h.list[i])

\* C9 as stated: on an empty or null history, and on one whose entries are
\* all skipped, computePlayerRating returns exactly initial, in
\* rz9/rz9Utils.js and in leaderboard/rz9Utils.js alike.
C9_ReturnsInitialExactly ==
  AllSkipped(entries) =>
    /\ "rz9" \in rated => rating = opts.initial
    /\ "leaderboard" \in rated => legacyRating = opts.initial

\* C9 amended: on such a history rz9/rz9Utils.js returns exactly initial and
\* leaderboard/rz9Utils.js returns Math.round(initial).
C9_ReturnsInitialOrRounded ==
  AllSkipped(entries) =>
    /\ "rz9" \in rated => rating = opts.initial
    /\ "leaderboard" \in rated => legacyRating = Round(opts.initial)

C9_Witness ==
  /\ rated = {"rz9", "leaderboard"}
  /\ ~entries.null
  /\ Len(entries.list) >= 2
  /\ AllSkipped(entries)
  /\ \E i \in 1..Len(entries.list) : entries.list[i].pct = NaN
  /\ \E i \in 1..Len(entries.list) :
       entries.list[i].date = TextDate /\ IsFinite(entries.list[i].pct)
  /\ opts.initial # Round(opts.initial)
  /\ rating = opts.initial
  /\ legacyRating = Round(opts.initial)

\* C10: a practice record that is null or lacks teams or lacks results
\* contributes nothing: aggregating the collection equals aggregating it
\* with those records removed.
C10_MalformedSkipped ==
  stage # "idle" =>
    playerMap = aggregatePlayerStats(SelectSeq(practices, LAMBDA p : ~Malformed(p)))

C10_Witness ==
  /\ stage = "aggregated"
  /\ Len(practices) >= 2
  /\ Malformed(practices[1])
  /\ ~Malformed(practices[2])
  /\ playerMap # <<>>


\* --------------------------------------------------- claims on the loader
\* the records of the fetches that resolved, in the order they were issued
Succeeded(log) ==
  LET ok == SelectSeq(log, LAMBDA f : f.ok)
  IN [i \in 1..Len(ok) |-> FileContent(ok[i].file)]

\* the fetches issued are the manifest's files, each once and in listed order
FetchedWholeManifest ==
  /\ Len(fetchLog) = Len(manifest.files)
  /\ \A i \in 1..Len(fetchLog) : fetchLog[i].file = manifest.files[i]

\* C11: when the manifest loads, whichever fetchPractice calls fail, every
\* listed file is still fetched and the load ends with error unset and
\* practices holding exactly the records whose fetch resolved.
C11_FailedFileSkipped ==
  /\ (lpc = "done" /\ ~cancelled => ~loading)
  /\ (lpc = "done" /\ manifest.k = "array" /\ ~loading =>
        /\ error = NoError
        /\ FetchedWholeManifest
        /\ SameMultiset(practices, Succeeded(fetchLog)))

C11_Witness ==
  /\ lpc = "done"
  /\ ~loading
  /\ Len(fetchLog) = 2
  /\ ~fetchLog[1].ok
  /\ fetchLog[2].ok
  /\ practices = <<FileContent(fetchLog[2].file)>>

\* the render guards of the table and of the error message
ShowsTable == ~loading /\ error = NoError /\ Len(practices) > 0
ShowsError == error # NoError

\* C12: a rejected fetchManifest is followed by no fetchPractice; unless the
\* effect was cleaned up first, the load ends with error set and loading
\* false; practices stays empty.  In every state a set error goes with empty
\* practices, and the table is not shown with the error.
C12_ManifestFailureIsFatal ==
  /\ (error # NoError => practices = <<>>)
  /\ ~(ShowsTable /\ ShowsError)
  /\ (manifest.k = "failed" =>
        /\ lpc = "done"
        /\ fetchLog = <<>>
        /\ practices = <<>>
        /\ \/ error # NoError /\ ~loading
           \/ cancelled /\ error = NoError /\ loading)

C12_Witness ==
  /\ manifest.k = "failed"
  /\ ~cancelled
  /\ error # NoError
  /\ ~loading
  /\ practices = <<>>

\* C15: practices is the initial empty collection until the load has ended,
\* and then the complete sorted list of the records whose fetch resolved;
\* setPractices is called at most once.
C15_PracticesAllOrNothing ==
  /\ setCalls <= 1
  /\ \/ practices = <<>>
     \/ /\ lpc = "done"
        /\ FetchedWholeManifest
        /\ practices = sortLoaded(Succeeded(fetchLog))

C15_Witness ==
  /\ lpc = "practice"
  /\ idx = 2
  /\ loaded # <<>>
  /\ practices = <<>>
  /\ setCalls = 0

\* C16: once the cleanup has set cancelled, no step of the load writes
\* practices, error or loading.
C16_NoWriteAfterTeardown ==
  [][cancelled => UNCHANGED <<practices, error, loading, setCalls>>]_vars

C16_Witness ==
  /\ cancelled
  /\ lpc = "done"
  /\ Len(fetchLog) = 2
  /\ fetchLog[2].ok
  /\ loaded # <<>>
  /\ loading
  /\ practices = <<>>

\* practices.length ? practices[practices.length - 1].date : "-"
lastDate == IF Len(practices) > 0 THEN practices[Len(practices)].date ELSE TextDate

\* C20: whatever the manifest's order, practices is in ascending order of the
\* records' dates and lastDate is the latest date among the loaded records.
C20_SortedByEmbeddedDate ==
  /\ \A i, j \in 1..Len(practices) :
       i < j => toUTC(practices[i].date).v <= toUTC(practices[j].date).v
  /\ \A i \in 1..Len(practices) : toUTC(practices[i].date).v <= toUTC(lastDate).v

C20_Witness ==
  /\ lpc = "done"
  /\ Len(practices) = 2
  /\ fetchLog[1].ok
  /\ toUTC(FileContent(fetchLog[1].file).date).v > toUTC(practices[1].date).v
  /\ practices[2] = FileContent(fetchLog[1].file)


\* -------------------------------------------------- claims on the example
\* the players of the leaderboard, in its order
Standing == [i \in 1..Len(leaderboard) |-> leaderboard[i].player]

ExampleTotals ==
  /\ PlayersOf(playerMap) = {"X", "Y", "Z"}
  /\ \A player \in {"X", "Y"} :
       EntryOf(playerMap, player).scored = 11 /\ EntryOf(playerMap, player).reps = 18
  /\ EntryOf(playerMap, "Z").scored = 5 /\ EntryOf(playerMap, "Z").reps = 10

\* 1000 + 200 * w * (11/18 - E(1000)), where E(1000) is the neutral rate
ExampleRating(w) ==
  INITIAL * ONE + RoundDiv(STEP * w * (RoundDiv(11 * ONE, 18) - NEUTRAL \div ONE), ONE)

\* whole days from the practice of the example to TODAY, none when TODAY is earlier
ExampleAge == Max(0, DaysFromCivil(TODAY.y, TODAY.m, TODAY.d) - DaysFromCivil(2025, 9, 3))

\* C13 as stated: on the example the totals are 11/18, 11/18 and 5/10, the
\* leaderboard lists X, Y, Z, and the rating of X is
\* 1000 + 200 * 1 * (11/18 - E(1000)): its one entry weighs 1.
C13_ExampleWeightOne ==
  stage = "ranked" /\ practices = <<ExamplePractice>> =>
    /\ ExampleTotals
    /\ Standing = <<"X", "Y", "Z">>
    /\ leaderboard[1].rating = ExampleRating(ONE)

\* C13 amended: totals and order as stated; the rating of X is
\* 1000 + 200 * w * (11/18 - E(1000)) with w = 0.5^(age/21) for the age of the
\* practice in whole days on the day TODAY was taken, which is 1 only when
\* that day is not after the practice.
C13_ExampleWeightByAge ==
  stage = "ranked" /\ practices = <<ExamplePractice>> =>
    /\ ExampleTotals
    /\ Standing = <<"X", "Y", "Z">>
    /\ leaderboard[1].rating = ExampleRating(Pow(ONE \div 2, RoundDiv(ExampleAge * ONE, HALF_LIFE)))
    /\ (ExampleAge = 0 => leaderboard[1].rating = ExampleRating(ONE))
    /\ (ExampleAge > 0 => leaderboard[1].rating < ExampleRating(ONE))

C13_Witness ==
  /\ stage = "ranked"
  /\ practices = <<ExamplePractice>>
  /\ TODAY = Today1
  /\ leaderboard[1].player = "X"
  /\ leaderboard[1].rating > INITIAL * ONE
  /\ leaderboard[1].rating < ExampleRating(ONE)


\* ------------------------------------------------ claims on odd entries
Abs(n) == IF n < 0 THEN 0 - n ELSE n

\* the age the loop gives a date that toUTC accepts
AgeOf(date) == ageDays(floorUTC(opts.today), toUTC(date).v)

\* |R - initial| for the history of the one entry e moved to the given date
MoveAt(e, date) ==
  Abs(computePlayerRating([null |-> FALSE, list |-> <<[e EXCEPT !.date = date]>>], opts)
        - opts.initial)

\* a history of one entry with a rate in [0,1] and a date toUTC accepts, rated
\* with a positive half-life
OneDecayedEntry ==
  /\ "rz9" \in rated
  /\ Len(entries.list) = 1
  /\ opts.halfLifeDays > 0
  /\ entries.list[1].pct.k = "num"
  /\ IsFinite(toUTC(entries.list[1].date))

OlderDates ==
  {d \in OddDates : IsFinite(toUTC(d)) /\ AgeOf(d) > AgeOf(entries.list[1].date)}

\* C14 as stated: of two one-entry histories that differ in the entry's age
\* only, the older one moves the rating by a strictly smaller |R - initial|,
\* for every rate in [0,1].
C14_OlderMovesStrictlyLess ==
  OneDecayedEntry =>
    \A d \in OlderDates : MoveAt(entries.list[1], d) < Abs(rating - opts.initial)

\* C14 amended: the older entry never moves the rating by more, and by
\* strictly less whenever the younger entry moves it at all; a rate equal to
\* the expected rate moves it at neither age.
C14_OlderMovesLessUnlessNone ==
  OneDecayedEntry =>
    /\ \A d \in OlderDates :
         /\ MoveAt(entries.list[1], d) <= Abs(rating - opts.initial)
         /\ (rating # opts.initial => MoveAt(entries.list[1], d) < Abs(rating - opts.initial))
    /\ (entries.list[1].pct.v = expectedPct(opts.initial, opts.mu, opts.width, opts.neutral)
          => rating = opts.initial)

C14_Witness ==
  /\ OneDecayedEntry
  /\ entries.list[1].pct = Num(ONE)
  /\ AgeOf(entries.list[1].date) = 0
  /\ rating > opts.initial
  /\ \E d \in OlderDates : AgeOf(d) = 7

\* what the claim calls an entry to skip: a rate that is NaN or infinite, or
\* a date with a piece that is missing, empty or no number
Unusable(e) ==
  \/ e.pct.k # "num"
  \/ e.date.y.k # "digits" \/ e.date.m.k # "digits" \/ e.date.d.k # "digits"

\* C17: computePlayerRating returns the rating of the history without the
\* entries whose rate is not finite or whose date is no calendar date.
C17_UnusableEntriesSkipped ==
  "rz9" \in rated =>
    rating = computePlayerRating(
               [null |-> FALSE, list |-> SelectSeq(entries.list, LAMBDA e : ~Unusable(e))], opts)

\* the entries the loop computes an age and a weight for
Weighted(e) == IsFinite(Clamp01(Number(e.pct))) /\ IsFinite(toUTC(e.date))

\* an entry whose date is a calendar date
Dated(e) == e.date.y.k = "digits" /\ e.date.m.k = "digits" /\ e.date.d.k = "digits"

\* C18 as stated: the age of every entry is a non-negative number of days, an
\* entry dated on or after the reference date has age 0 and weight 1, every
\* weight is in (0,1], and is 1 when halfLifeDays <= 0.
C18_WeightPositive ==
  "rz9" \in rated =>
    \A n \in 1..Len(entries.list) :
      LET date == entries.list[n].date
          w == decay(AgeOf(date), opts.halfLifeDays)
      IN Weighted(entries.list[n]) /\ Dated(entries.list[n]) /\ entries.list[n].pct.k = "num" =>
           /\ AgeOf(date) >= 0
           /\ (toUTC(date).v >= floorUTC(opts.today) => AgeOf(date) = 0 /\ w = ONE)
           /\ 0 < w /\ w <= ONE
           /\ (opts.halfLifeDays <= 0 => w = ONE)

\* C18 amended: as above with every weight in [0,1]; a weight is 0 only where
\* 0.5^(age/halfLifeDays) is below the least positive double, which takes
\* age/halfLifeDays of 1075 or more.
C18_WeightInUnitInterval ==
  "rz9" \in rated =>
    \A n \in 1..Len(entries.list) :
      LET date == entries.list[n].date
          w == decay(AgeOf(date), opts.halfLifeDays)
      IN Weighted(entries.list[n]) =>
           /\ AgeOf(date) >= 0
           /\ (toUTC(date).v >= floorUTC(opts.today) => AgeOf(date) = 0 /\ w = ONE)
           /\ 0 <= w /\ w <= ONE
           /\ (w = 0 => opts.halfLifeDays > 0 /\ AgeOf(date) >= 1075 * opts.halfLifeDays)
           /\ (AgeOf(date) < 1075 * opts.halfLifeDays => w > 0)
           /\ (opts.halfLifeDays <= 0 => w = ONE)

C18_Witness ==
  /\ "rz9" \in rated
  /\ opts.halfLifeDays > 0
  /\ Len(entries.list) = 2
  /\ entries.list[1].date = YMD(2025, 9, 20)
  /\ AgeOf(entries.list[1].date) = 0
  /\ entries.list[2].date = YMD(1950, 1, 1)
  /\ Weighted(entries.list[1]) /\ Weighted(entries.list[2])
  /\ decay(AgeOf(entries.list[2].date), opts.halfLifeDays) = 0


\* ------------------------------------------- claims on same-date entries
\* the (record, result) pairs of the collection that credit the player
CreditsOf(player) ==
  UNION { { <<n, r>> : r \in { r \in 1..Len(practices[n].results) :
                                LET roster == RosterOf(practices[n].teams,
                                                       practices[n].results[r].team_id)
                                IN \E i \in 1..Len(roster) : roster[i] = player } }
          : n \in {n \in 1..Len(practices) : ~Malformed(practices[n])} }

CreditDate(c) == practices[c[1]].date
CreditResult(c) == practices[c[1]].results[c[2]]

RECURSIVE SumReps(_)
SumReps(C) ==
  IF C = {} THEN 0
  ELSE LET c == CHOOSE x \in C : TRUE IN CreditResult(c).reps + SumReps(C \ {c})

RECURSIVE SumScores(_)
SumScores(C) ==
  IF C = {} THEN 0
  ELSE LET c == CHOOSE x \in C : TRUE IN CreditResult(c).scores + SumScores(C \ {c})

\* the history entry a credit appends
CreditEntry(c) ==
  [k |-> "obj", date |-> CreditDate(c),
   pct |-> Divide(CreditResult(c).scores, CreditResult(c).reps), rate |-> Undefined]

\* one record of that date credits the player through two of its teams
OnTwoTeamsOfOneRecord(player, date) ==
  \E c1, c2 \in CreditsOf(player) :
    /\ c1[1] = c2[1]
    /\ CreditResult(c1).team_id # CreditResult(c2).team_id
    /\ CreditDate(c1) = date

\* two records of that date credit the player
InTwoRecordsOfOneDate(player, date) ==
  \E c1, c2 \in CreditsOf(player) :
    c1[1] # c2[1] /\ CreditDate(c1) = date /\ CreditDate(c2) = date

SameDatePairs(h) == {jk \in (1..Len(h)) \X (1..Len(h)) : jk[1] < jk[2] /\ h[jk[1]].date = h[jk[2]].date}

\* C19 as stated: a history holds two entries of one date only if the player
\* is on two teams of one practice record.
C19_SameDateOnlyWithinOneRecord ==
  stage # "idle" =>
    \A i \in 1..Len(playerMap) :
      \A jk \in SameDatePairs(playerMap[i].practices) :
        OnTwoTeamsOfOneRecord(playerMap[i].player, playerMap[i].practices[jk[1]].date)

\* C19 amended: two entries of one date come from two teams of one record or
\* from two records of that date; every credit keeps its own entry with the
\* rate of its own result, and the totals are the sums over all credits.
C19_SameDateFromTeamsOrRecords ==
  stage # "idle" =>
    \A i \in 1..Len(playerMap) :
      LET player == playerMap[i].player
          h == playerMap[i].practices
          C == CreditsOf(player)
      IN /\ \A jk \in SameDatePairs(h) :
              \/ OnTwoTeamsOfOneRecord(player, h[jk[1]].date)
              \/ InTwoRecordsOfOneDate(player, h[jk[1]].date)
         /\ Len(h) = Cardinality(C)
         /\ \A c \in C :
              CountIn(h, CreditEntry(c)) = Cardinality({x \in C : CreditEntry(x) = CreditEntry(c)})
         /\ playerMap[i].reps = SumReps(C)
         /\ playerMap[i].scored = SumScores(C)

C19_Witness ==
  /\ stage = "aggregated"
  /\ Len(practices) = 1
  /\ MapHas(playerMap, "X")
  /\ OnTwoTeamsOfOneRecord("X", practices[1].date)
  /\ Len(EntryOf(playerMap, "X").practices) = 2
  /\ EntryOf(playerMap, "X").practices[1].date = EntryOf(playerMap, "X").practices[2].date
  /\ EntryOf(playerMap, "X").reps = 6
  /\ EntryOf(playerMap, "X").scored = 3


\* ------------------------------------------ claims on PracticeDetails
\* the render guard of the table of PracticeDetails
ShowsPracticeTable == ~pdLoading /\ pdError = NoError /\ pdData # NoData

\* the effect has run for the open date and its fetch has settled
CurrentFetchSettled ==
  /\ selectedPractice # NoSelection
  /\ pdDeps = selectedPractice
  /\ pdFetches[Len(pdFetches)].state # "pending"

SettledShowsCurrent ==
  CurrentFetchSettled =>
    LET cur == pdFetches[Len(pdFetches)]
    IN /\ cur.date = selectedPractice
       /\ ~cur.cancelled
       /\ ~pdLoading
       /\ (cur.state = "ok" => pdData = DetailContent(selectedPractice) /\ pdError = NoError)
       /\ (cur.state = "failed" => pdError = ErrorFor(selectedPractice))
       /\ (ShowsPracticeTable => pdData = DetailContent(selectedPractice))

\* the step settles a fetch whose run was cleaned up
SettlesStale ==
  \E i \in 1..Len(pdFetches) :
    /\ pdFetches[i].cancelled
    /\ pdFetches[i].state = "pending"
    /\ pdFetches'[i].state # "pending"

\* C21: the response or failure of a fetch whose run was cleaned up, by a
\* change of date or by closing, writes none of data, error and loading; once
\* the fetch for the open date has settled, loading is false and what is
\* shown is the record of that date, or that date's error.
C21_StaleResponseDropped ==
  /\ []SettledShowsCurrent
  /\ [][SettlesStale => UNCHANGED <<pdData, pdError, pdLoading>>]_vars

C21_Witness ==
  /\ Len(pdFetches) = 2
  /\ pdFetches[1].cancelled
  /\ pdFetches[1].state = "ok"
  /\ pdFetches[1].date # pdFetches[2].date
  /\ ~pdFetches[2].cancelled
  /\ pdFetches[2].state = "failed"
  /\ selectedPractice = pdFetches[2].date
  /\ pdData = NoData
  /\ pdError = ErrorFor(selectedPractice)
  /\ ~pdLoading


\* ------------------------------------------- claims on the player drill-down
\* the leaderboard has a row for the player whose drill-down is open
HasBoardRow ==
  /\ selectedPlayer # NoSelection
  /\ \E i \in 1..Len(leaderboard) : leaderboard[i].player = selectedPlayer

BoardRow == leaderboard[CHOOSE i \in 1..Len(leaderboard) : leaderboard[i].player = selectedPlayer]

\* C22: the overall scores and reps of the drill-down, summed over its rows,
\* are the scored and reps of the player's leaderboard row.
C22_DrillTotalsMatchBoard ==
  HasBoardRow =>
    /\ RowTotals(playerRows).scores = BoardRow.scored
    /\ RowTotals(playerRows).reps = BoardRow.reps

C22_Witness ==
  /\ selectedPlayer = "X"
  /\ HasBoardRow
  /\ Len(practices) = 2
  /\ Len(playerRows) = 2
  /\ Len(playerRows[1].teamIds) = 2
  /\ playerRows[1].reps = 6
  /\ BoardRow.reps > 6

\* C23: the Current Rating shown in the drill-down is the rating of the
\* player's leaderboard row, as the table shows it.
C23_DrillRatingMatchesBoard ==
  HasBoardRow => CurrentRating(playerRows, TODAY) = Round(BoardRow.rating)


\* ------------------------------------------ claims on the end of the load
\* the practice fetches settled so far are the first files of the manifest in
\* listed order, and the one awaited is the next
IssuedInManifestOrder ==
  /\ Len(fetchLog) <= Len(manifest.files)
  /\ \A i \in 1..Len(fetchLog) : fetchLog[i].file = manifest.files[i]
  /\ (lpc = "practice" => idx = Len(fetchLog) + 1)

\* C24: when the effect is never cleaned up and every fetch settles, loading
\* becomes false and stays false, whatever the manifest fetch and the practice
\* fetches do; loading never goes back to true, and the practice fetches are
\* issued one at a time in manifest order.
C24_LoadingEndsFalse ==
  /\ ([]~cancelled => <>[]~loading)
  /\ [][~loading => ~loading']_vars
  /\ []IssuedInManifestOrder

C24_Witness ==
  /\ lpc = "done"
  /\ ~cancelled
  /\ ~loading
  /\ Len(fetchLog) = 2
  /\ fetchLog[1].ok
  /\ ~fetchLog[2].ok
  /\ Len(practices) = 1

====
